---- MODULE Spec2Model ----
(***************************************************************************)
(* Imbu web API (imbu/engine/fluent_api.py): startup of the module-level   *)
(* FluentWrapper (corpus load, construction and training of every model of *)
(* _MODEL_MAPPING) followed by the request handlers DefaultHandler.GET,    *)
(* FluentAPIHandler.OPTIONS / POST and direct calls of FluentWrapper.query.*)
(*                                                                         *)
(* The classification engines (htmresearch) and readCSV are collaborators  *)
(* whose code is not part of the source file; their behaviour is modelled  *)
(* from the specification's engine contract (section 4.2): most similar    *)
(* first.  The source calls what queryModel returns sortedDistances and    *)
(* each value dist, so the engine's number is a distance: the most similar *)
(* sample is the one with the smallest distance.                           *)
(***************************************************************************)
EXTENDS Integers, Sequences, FiniteSets, TLC

\* ------------------------------------------------------------------ bounds
\* Largest number of rows of the CSV source.
MaxRows == 2
\* How many later requests the remembered POST is followed for.
MaxSince == 2

\* --------------------------------------------------------- python values
\* A Python value as seen by truth tests and isinstance(): str, int, None.
PyStr(s) == [type |-> "str", s |-> s, n |-> 0]
PyInt(n) == [type |-> "int", s |-> "", n |-> n]
PyNone == [type |-> "NoneType", s |-> "", n |-> 0]

\* `if data:` / `if text:` -- Python truth value.
Truthy(v) ==
  CASE v.type = "str" -> v.s # ""
    [] v.type = "int" -> v.n # 0
    [] OTHER -> FALSE

\* isinstance(data, basestring)
IsBasestring(v) == v.type = "str"

\* ------------------------------------------------------ static configuration
\* _MODEL_MAPPING: model name -> engine class.
MODEL_MAPPING ==
  [name \in {"CioWordFingerprint", "CioDocumentFingerprint", "CioWindows"} |->
     IF name = "CioWindows" THEN "ClassificationModelWindows"
                            ELSE "ClassificationModelFingerprint"]

DEFAULT_MODEL_NAME == "CioWindows"

\* Environment variables read by the fingerprint models' constructors.
EnvKeys == {"IMBU_RETINA_ID", "CORTICAL_API_KEY"}

\* ------------------------------------------------------------ input domains
QueryTexts == {"cat sitting", "the dog"}

\* A CSV row as readCSV yields it: (sample text, labels, ID); numLabels=0.
\* Two rows may carry the same ID.
Rows == {<<"the cat sat", <<>>, "1">>, <<"the dog ran", <<>>, "2">>,
         <<"the dog ran", <<>>, "1">>}

RECURSIVE SeqsUpTo(_, _)
SeqsUpTo(S, n) ==
  IF n = 0 THEN {<<>>}
  ELSE LET shorter == SeqsUpTo(S, n - 1)
       IN  shorter \cup {Append(q, x) : q \in {r \in shorter : Len(r) = n - 1}, x \in S}

\* The data source: a readable CSV with up to MaxRows rows, or no file.
Sources ==
  {[exists |-> TRUE, rows |-> r] : r \in SeqsUpTo(Rows, MaxRows)}
    \cup {[exists |-> FALSE, rows |-> <<>>]}

\* URL arguments of /fluent (none) and /fluent/(.*) (one captured group).
UrlArgs == {<<>>, <<"CioWordFingerprint">>, <<"Keywords">>}

\* What web.data() may hand to POST.
Bodies == {PyStr(""), PyNone, PyInt(7)} \cup {PyStr(q) : q \in QueryTexts}

\* Arguments of a direct FluentWrapper.query call (text is a str).
QueryModelArgs == {"CioDocumentFingerprint", "Keywords"}
QueryTextArgs == {PyStr(""), PyStr("the dog")}

\* ------------------------------------------------------------- OrderedDict
\* An OrderedDict is a sequence of <<key, value>> in first-insertion order.
Keys(od) == {od[i][1] : i \in 1..Len(od)}

\* od[k] = v : an existing key keeps its position, a new key is appended.
OrderedDictSet(od, k, v) ==
  IF k \in Keys(od)
  THEN [i \in 1..Len(od) |-> IF od[i][1] = k THEN <<k, v>> ELSE od[i]]
  ELSE Append(od, <<k, v>>)

\* od[k] for a key that is present.
OrderedDictGet(od, k) == od[CHOOSE i \in 1..Len(od) : od[i][1] = k][2]

\* self.samples after the loop of FluentWrapper.__init__ over csvdata.values():
\* self.samples[sample[2]] = sample[0]  (ID -> text; TLA+ tuples are 1-based).
RECURSIVE BuildSamples(_, _)
BuildSamples(od, rows) ==
  IF rows = <<>> THEN od
  ELSE BuildSamples(OrderedDictSet(od, Head(rows)[3], Head(rows)[1]), Tail(rows))

\* xrange(n) : 0, 1, ..., n-1
xrangeShort(n) == [k \in 1..(IF n > 0 THEN n - 1 ELSE 0) |-> k - 1]
xrange(n) == [k \in 1..n |-> k - 1]

\* ------------------------------------------------------------------ engine
\* The opaque ranking engine behind a model name (capability set prepare,
\* encode, train, query).  `patterns` is what encodeSamples stored, `trained`
\* the indices trainModel was called with, in call order.
NoModel ==
  [cls |-> "None", fingerprintType |-> "None", verbosity |-> 0, numLabels |-> 0,
   patterns |-> <<>>, trained |-> <<>>]

\* modelFactory(...) : a fresh, untrained engine with the library's defaults.
NewEngine(cls, fingerprintType) ==
  [cls |-> cls, fingerprintType |-> fingerprintType, verbosity |-> 1,
   numLabels |-> 3, patterns |-> <<>>, trained |-> <<>>]

\* Tokens of a text (tokenisation of the texts of the input domains).
Words(text) ==
  CASE text = "the cat sat" -> {"the", "cat", "sat"}
    [] text = "the dog ran" -> {"the", "dog", "ran"}
    [] text = "cat sitting" -> {"cat", "sitting"}
    [] text = "the dog" -> {"the", "dog"}
    [] OTHER -> {}

\* model.prepData(csvdata, False): one prepared sample per row, in row order,
\* identifiers neither dropped nor reordered.
prepData(csvdata) ==
  [i \in 1..Len(csvdata) |-> [tokens |-> Words(csvdata[i][1]), id |-> csvdata[i][3]]]

\* model.encodeSamples(samples): the engine keeps the encoded samples.
encodeSamples(model, samples) == [model EXCEPT !.patterns = samples]

\* model.trainModel(i): one training step on encoded sample i.
trainModel(model, i) == [model EXCEPT !.trained = Append(@, i)]

\* Distance of a query to one trained sample: the tokens only one of them has.
Distance(text, pattern) ==
  Cardinality((Words(text) \cup pattern.tokens) \ (Words(text) \cap pattern.tokens))

\* Identifiers of the trained samples, first-trained first, without repeats.
RECURSIVE UniqueIds(_, _, _)
UniqueIds(model, k, acc) ==
  IF k > Len(model.trained) THEN acc
  ELSE LET id == model.patterns[model.trained[k] + 1].id
       IN  UniqueIds(model, k + 1,
                     IF \E j \in 1..Len(acc) : acc[j] = id THEN acc ELSE Append(acc, id))

\* Smallest distance among the trained samples carrying identifier id.
MinDistance(model, text, id) ==
  LET ks == {k \in 1..Len(model.trained) : model.patterns[model.trained[k] + 1].id = id}
      d(k) == Distance(text, model.patterns[model.trained[k] + 1])
  IN  CHOOSE v \in {d(k) : k \in ks} : \A k \in ks : v <= d(k)

\* Stable insertion of pair p into a sequence kept nearest first.
RECURSIVE InsertNearestFirst(_, _)
InsertNearestFirst(sorted, p) ==
  IF sorted = <<>> THEN <<p>>
  ELSE IF Head(sorted)[2].numpy <= p[2].numpy
       THEN <<Head(sorted)>> \o InsertNearestFirst(Tail(sorted), p)
       ELSE <<p>> \o sorted

RECURSIVE SortNearestFirst(_, _)
SortNearestFirst(pairs, acc) ==
  IF pairs = <<>> THEN acc
  ELSE SortNearestFirst(Tail(pairs), InsertNearestFirst(acc, Head(pairs)))

\* model.queryModel(text, preprocess=False): sortedDistances, the (sample ID,
\* distance as a numpy scalar) pairs, most similar (nearest) first; ties keep
\* training order.
queryModel(model, text) ==
  LET ids == UniqueIds(model, 1, <<>>)
      pairs == [j \in 1..Len(ids) |-> <<ids[j], [numpy |-> MinDistance(model, text, ids[j])]>>]
  IN  SortNearestFirst(pairs, <<>>)

\* dist.item(): the Python number held by a numpy scalar.
item(dist) == dist.numpy

\* ------------------------------------------------------------------- state
VARIABLES
  source,    \* the CSV file at IMBU_DATA (or its absence)
  environ,   \* the environment variables that are set
  pc,        \* "start", "models", "ready" (application bound), "failed"
  raised,    \* the exception that left the module body, or "none"
  csvdata,   \* readCSV's rows
  samples,   \* FluentWrapper.samples (OrderedDict ID -> text)
  pending,   \* names _MODEL_MAPPING.iteritems() has still to yield
  built,     \* the dict the comprehension of __init__ has built so far
  cur,       \* the running createModel call, or NoFrame
  models,    \* FluentWrapper.models (empty until the comprehension is assigned)
  request,   \* the request served last
  response,  \* what it returned
  calls,     \* the engine queries made while serving it, with what each returned
  memo       \* an earlier POST and its response, kept for comparison

vars == <<source, environ, pc, raised, csvdata, samples, pending, built, cur,
          models, request, response, calls, memo>>

inputVars == <<source, environ>>
requestVars == <<request, response, calls, memo>>

EmptyDict == <<>>

NoFrame == [name |-> "None", step |-> "None", model |-> NoModel, samples |-> <<>>, i |-> 0]

NoRequest == [method |-> "None", args |-> <<>>, modelName |-> "None", data |-> PyNone]

NoResponse ==
  [status |-> 0, contentType |-> "None", cors |-> FALSE, message |-> "None", body |-> <<>>]

NoMemo == [set |-> FALSE, modelName |-> "None", data |-> PyNone, response |-> NoResponse, since |-> 0]

Init ==
  /\ source \in Sources
  /\ environ \in SUBSET EnvKeys
  /\ pc = "start"
  /\ raised = "none"
  /\ csvdata = <<>>
  /\ samples = <<>>
  /\ pending = {}
  /\ built = EmptyDict
  /\ cur = NoFrame
  /\ models = EmptyDict
  /\ request = NoRequest
  /\ response = NoResponse
  /\ calls = <<>>
  /\ memo = NoMemo

\* ----------------------------------------------------------------- startup
\* An exception raised inside FluentWrapper(IMBU_DATA) is caught nowhere: it
\* leaves the dict comprehension, __init__ and the module body, so neither
\* self.models, g_fluent nor application is ever bound.
RaiseSwallowed(exc) ==
  /\ raised' = exc
  /\ cur' = NoFrame
  /\ UNCHANGED <<pc, built>>
Raise(exc) ==
  /\ raised' = exc
  /\ pc' = "failed"
  /\ cur' = NoFrame
  /\ built' = EmptyDict

\* csvdata = readCSV(dataPath, numLabels=0) and the loop filling self.samples.
LoadCSV ==
  /\ pc = "start"
  /\ IF source.exists
     THEN /\ csvdata' = source.rows
          /\ samples' = BuildSamples(<<>>, source.rows)
          /\ pending' = DOMAIN MODEL_MAPPING
          /\ pc' = "models"
          /\ UNCHANGED <<raised, cur, built>>
     ELSE /\ Raise("IOError")
          /\ UNCHANGED <<csvdata, samples, pending>>
  /\ UNCHANGED <<models, inputVars, requestVars>>

\* The comprehension takes the next item of _MODEL_MAPPING.iteritems() (dict
\* order) and enters createModel, which looks the factory up.
CallCreateModel ==
  /\ pc = "models"
  /\ cur = NoFrame
  /\ \E modelName \in pending :
       /\ pending' = pending \ {modelName}
       /\ IF modelName \notin DOMAIN MODEL_MAPPING
          THEN Raise("ValueError")
          ELSE /\ cur' = [NoFrame EXCEPT !.name = modelName, !.step = "factory"]
               /\ UNCHANGED <<pc, raised, built>>
  /\ UNCHANGED <<csvdata, samples, models, inputVars, requestVars>>

\* The branch of createModel that constructs the engine.  "HTMNetwork" has no
\* entry in _MODEL_MAPPING, so its branch is never entered.  The fingerprint
\* models read os.environ[...]; a missing key raises KeyError.
Construct ==
  /\ pc = "models"
  /\ cur.step = "factory"
  /\ \E ok \in BOOLEAN :
       LET needsEnv == cur.name \in {"CioWordFingerprint", "CioDocumentFingerprint"}
           fingerprintType ==
             CASE cur.name = "CioWordFingerprint" -> "word"
               [] cur.name = "CioDocumentFingerprint" -> "document"
               [] OTHER -> "default"
       IN  IF needsEnv /\ ~(EnvKeys \subseteq environ)
           THEN Raise("KeyError")
           ELSE IF ~ok
           THEN Raise("EngineError")
           ELSE /\ cur' = [cur EXCEPT
                             !.model = NewEngine(MODEL_MAPPING[cur.name], fingerprintType),
                             !.step = "prepData"]
                /\ UNCHANGED <<pc, raised, built>>
  /\ UNCHANGED <<csvdata, samples, pending, models, inputVars, requestVars>>

\* model.verbosity = 0; model.numLabels = 0; samples = model.prepData(csvdata, False)
PrepData ==
  /\ pc = "models"
  /\ cur.step = "prepData"
  /\ \E ok \in BOOLEAN :
       IF ok
       THEN /\ cur' = [cur EXCEPT !.model.verbosity = 0, !.model.numLabels = 0,
                                  !.samples = prepData(csvdata),
                                  !.step = "encodeSamples"]
            /\ UNCHANGED <<pc, raised, built>>
       ELSE Raise("EngineError")
  /\ UNCHANGED <<csvdata, samples, pending, models, inputVars, requestVars>>

\* model.encodeSamples(samples)
EncodeSamples ==
  /\ pc = "models"
  /\ cur.step = "encodeSamples"
  /\ \E ok \in BOOLEAN :
       IF ok
       THEN /\ cur' = [cur EXCEPT !.model = encodeSamples(cur.model, cur.samples),
                                  !.step = "trainModel", !.i = 1]
            /\ UNCHANGED <<pc, raised, built>>
       ELSE Raise("EngineError")
  /\ UNCHANGED <<csvdata, samples, pending, models, inputVars, requestVars>>

\* One iteration of: for i in xrange(len(samples)): model.trainModel(i)
TrainModel ==
  /\ pc = "models"
  /\ cur.step = "trainModel"
  /\ cur.i <= Len(xrange(Len(cur.samples)))
  /\ \E ok \in BOOLEAN :
       IF ok
       THEN /\ cur' = [cur EXCEPT
                         !.model = trainModel(cur.model, xrange(Len(cur.samples))[cur.i]),
                         !.i = @ + 1]
            /\ UNCHANGED <<pc, raised, built>>
       ELSE Raise("EngineError")
  /\ UNCHANGED <<csvdata, samples, pending, models, inputVars, requestVars>>

\* The loop is exhausted: return model; the comprehension stores the item.
ReturnModel ==
  /\ pc = "models"
  /\ cur.step = "trainModel"
  /\ cur.i > Len(xrange(Len(cur.samples)))
  /\ built' = built @@ (cur.name :> cur.model)
  /\ cur' = NoFrame
  /\ UNCHANGED <<pc, raised, csvdata, samples, pending, models, inputVars, requestVars>>

\* self.models = {...}; g_fluent = FluentWrapper(...); application = app.wsgifunc()
FinishStartup ==
  /\ pc = "models"
  /\ cur = NoFrame
  /\ pending = {}
  /\ models' = built
  /\ pc' = "ready"
  /\ UNCHANGED <<raised, csvdata, samples, pending, built, cur, inputVars, requestVars>>

\* ---------------------------------------------------------- FluentWrapper.query
\* results = []
LeftoverResults == response.body
NewResults == <<>>

\* self.samples[sID] misses when the engine names an ID the store lacks.
OrderedDictGetFirst(od, k) == od[1][2]
SamplesText(od, k) == OrderedDictGet(od, k)

\* for sID, dist in sortedDistances: results.append({"id": .., "text": .., "score": ..})
InsertResultsFront(results, sortedDistances) ==
  [i \in 1..Len(sortedDistances) |->
     LET p == sortedDistances[Len(sortedDistances) + 1 - i]
     IN  [id |-> p[1], text |-> SamplesText(samples, p[1]), score |-> item(p[2])]]
    \o results
AppendResults(results, sortedDistances) ==
  results \o
    [i \in 1..Len(sortedDistances) |->
       [id |-> sortedDistances[i][1],
        text |-> SamplesText(samples, sortedDistances[i][1]),
        score |-> item(sortedDistances[i][2])]]

\* FluentWrapper.query(model, text): what it returns or raises, and the engine
\* queries it makes.
queryUnguarded(model, text) ==
  IF model \notin DOMAIN models
  THEN [exc |-> "KeyError", results |-> <<>>, calls |-> <<>>]
  ELSE [exc |-> "none",
        results |-> AppendResults(NewResults, queryModel(models[model], text.s)),
        calls |-> <<[model |-> model, text |-> text, preprocess |-> FALSE,
                     returned |-> queryModel(models[model], text.s)]>>]
query(model, text) ==
  IF Truthy(text)
  THEN IF model \notin DOMAIN models
       THEN [exc |-> "KeyError", results |-> <<>>, calls |-> <<>>]
       ELSE LET sortedDistances == queryModel(models[model], text.s)
                call == [model |-> model, text |-> text, preprocess |-> FALSE,
                         returned |-> sortedDistances]
            IN  IF \E i \in 1..Len(sortedDistances) : sortedDistances[i][1] \notin Keys(samples)
                THEN [exc |-> "KeyError", results |-> <<>>, calls |-> <<call>>]
                ELSE [exc |-> "none",
                      results |-> AppendResults(NewResults, sortedDistances),
                      calls |-> <<call>>]
  ELSE [exc |-> "none", results |-> NewResults, calls |-> <<>>]

\* ------------------------------------------------------------------ handlers
\* json.dumps(response): a JSON array, one object per list element, in list order.
json_dumps(list) ==
  [i \in 1..Len(list) |-> [id |-> list[i].id, text |-> list[i].text, score |-> list[i].score]]

\* g_fluent.samples.items(): the (key, value) list it returns and the
\* dictionary it leaves behind.
popitems(od) == [list |-> od, dict |-> <<>>]
items(od) == [list |-> od, dict |-> od]

\* [{"id": item[0], "text": item[1], "score": 0} for item in ...items()]
ListingScored(list) ==
  [i \in 1..Len(list) |-> [id |-> list[i][1], text |-> list[i][2], score |-> i]]
Listing(list) ==
  [i \in 1..Len(list) |-> [id |-> list[i][1], text |-> list[i][2], score |-> 0]]

\* `modelName not in g_fluent`: FluentWrapper defines none of __contains__,
\* __iter__ and __getitem__, so the membership test itself raises TypeError.
NotInFluentWrapper(modelName) == [exc |-> "TypeError", value |-> FALSE]

\* The handler's modelName: the captured URL group, or the default.
ModelNameOf(args) == IF args = <<>> THEN DEFAULT_MODEL_NAME ELSE args[1]

JsonResponse(status, message, body) ==
  [status |-> status, contentType |-> "application/json; charset=UTF-8",
   cors |-> TRUE, message |-> message, body |-> body]

\* "%s Model not found" % modelName
NotFoundMessage(modelName) == modelName \o " Model not found"

\* FluentAPIHandler.OPTIONS
OPTIONSResult(modelName) ==
  LET test == NotInFluentWrapper(modelName)
  IN  IF test.exc # "none"
      THEN JsonResponse("500 Internal Server Error", test.exc, <<>>)
      ELSE IF test.value
      THEN JsonResponse("404 Not Found", NotFoundMessage(modelName), <<>>)
      ELSE JsonResponse("200 OK", "", <<>>)

\* FluentAPIHandler.POST: the response, the engine queries made, and
\* g_fluent.samples afterwards.
StringsOnly(v) == TRUE
IsString(v) == IsBasestring(v)

POSTResult(modelName, data) ==
  IF modelName \notin DOMAIN models
  THEN [response |-> JsonResponse("404 Not Found", NotFoundMessage(modelName), <<>>),
        calls |-> <<>>, samples |-> samples]
  ELSE IF Truthy(data)
  THEN IF IsString(data)
       THEN LET q == query(modelName, data)
            IN  [response |->
                   IF q.exc = "none"
                   THEN JsonResponse("200 OK", "", json_dumps(q.results))
                   ELSE JsonResponse("500 Internal Server Error", q.exc, <<>>),
                 calls |-> q.calls, samples |-> samples]
       ELSE [response |->
               JsonResponse("400 Bad Request",
                            "Invalid Data. Query data must be a string", <<>>),
             calls |-> <<>>, samples |-> samples]
  ELSE LET it == items(samples)
       IN  [response |-> JsonResponse("200 OK", "", json_dumps(Listing(it.list))),
            calls |-> <<>>, samples |-> it.dict]

\* The remembered POST grows older by one served request.
Older(m) ==
  IF m.set /\ m.since < MaxSince THEN [m EXCEPT !.since = @ + 1] ELSE m

\* DefaultHandler.GET
GET ==
  /\ pc = "ready"
  /\ request' = [NoRequest EXCEPT !.method = "GET"]
  /\ response' = [status |-> "200 OK", contentType |-> "text/html; charset=UTF-8",
                  cors |-> FALSE,
                  message |-> "<html><body><h1>Welcome to Nupic Fluent</h1></body></html>",
                  body |-> <<>>]
  /\ calls' = <<>>
  /\ memo' = Older(memo)
  /\ UNCHANGED <<pc, raised, csvdata, samples, pending, built, cur, models, inputVars>>

OPTIONS ==
  /\ pc = "ready"
  /\ \E args \in UrlArgs :
       /\ request' = [NoRequest EXCEPT !.method = "OPTIONS", !.args = args,
                                       !.modelName = ModelNameOf(args)]
       /\ response' = OPTIONSResult(ModelNameOf(args))
  /\ calls' = <<>>
  /\ memo' = Older(memo)
  /\ UNCHANGED <<pc, raised, csvdata, samples, pending, built, cur, models, inputVars>>

POST ==
  /\ pc = "ready"
  /\ \E args \in UrlArgs, data \in Bodies,
        remember \in (IF memo.set THEN {FALSE} ELSE BOOLEAN) :
       \E r \in {POSTResult(ModelNameOf(args), data)} :
           /\ request' = [method |-> "POST", args |-> args,
                          modelName |-> ModelNameOf(args), data |-> data]
           /\ response' = r.response
           /\ calls' = r.calls
           /\ samples' = r.samples
           /\ memo' = IF remember /\ ~memo.set
                      THEN [set |-> TRUE, modelName |-> ModelNameOf(args), data |-> data,
                            response |-> r.response, since |-> 0]
                      ELSE Older(memo)
  /\ UNCHANGED <<pc, raised, csvdata, pending, built, cur, models, inputVars>>

\* A direct call g_fluent.query(model, text).
DirectQuery ==
  /\ pc = "ready"
  /\ \E model \in QueryModelArgs, text \in QueryTextArgs :
       \E q \in {query(model, text)} :
           /\ request' = [method |-> "query", args |-> <<model>>,
                          modelName |-> model, data |-> text]
           /\ response' = [status |-> IF q.exc = "none" THEN "returned" ELSE "raised",
                           contentType |-> "None", cors |-> FALSE,
                           message |-> q.exc, body |-> q.results]
           /\ calls' = q.calls
  /\ memo' = Older(memo)
  /\ UNCHANGED <<pc, raised, csvdata, samples, pending, built, cur, models, inputVars>>

Next ==
  \/ LoadCSV
  \/ CallCreateModel
  \/ Construct
  \/ PrepData
  \/ EncodeSamples
  \/ TrainModel
  \/ ReturnModel
  \/ FinishStartup
  \/ GET
  \/ OPTIONS
  \/ POST
  \/ DirectQuery

Spec == Init /\ [][Next]_vars

\* ------------------------------------------------------------------ claims
\* Expectations computed from the CSV rows, independently of the handlers.
RECURSIVE FirstSeenIds(_, _)
FirstSeenIds(rows, acc) ==
  IF rows = <<>> THEN acc
  ELSE FirstSeenIds(Tail(rows),
                    IF \E j \in 1..Len(acc) : acc[j] = Head(rows)[3]
                    THEN acc ELSE Append(acc, Head(rows)[3]))

LastTextOf(rows, id) ==
  rows[CHOOSE i \in 1..Len(rows) :
         /\ rows[i][3] = id
         /\ \A j \in (i + 1)..Len(rows) : rows[j][3] # id][1]

Registered(name) == name \in DOMAIN models

IsPost == pc = "ready" /\ request.method = "POST"

\* A POST carrying a non-empty string body for a registered model.
IsQueryPost ==
  /\ IsPost
  /\ Registered(request.modelName)
  /\ IsBasestring(request.data)
  /\ request.data.s # ""

NonIncreasing(body) ==
  \A i \in 1..(Len(body) - 1) : body[i].score >= body[i + 1].score

NonDecreasing(body) ==
  \A i \in 1..(Len(body) - 1) : body[i].score <= body[i + 1].score

FullyTrained(engine) ==
  /\ engine.patterns = prepData(csvdata)
  /\ engine.trained = [k \in 1..Len(csvdata) |-> k - 1]

\* C1: a POST with an empty body for a registered model returns exactly the
\* corpus listing: one entry per sample of the store, in load order (the order
\* in which the IDs first appear in the CSV), with the store's id and text and
\* score 0; the engine is not queried.
C1_EmptyBodyListing ==
  (IsPost /\ Registered(request.modelName) /\ request.data = PyStr(""))
    => /\ response.status = "200 OK"
       /\ calls = <<>>
       /\ Len(response.body) = Len(samples)
       /\ \A i \in 1..Len(samples) :
            response.body[i] = [id |-> samples[i][1], text |-> samples[i][2], score |-> 0]
       /\ [i \in 1..Len(response.body) |-> response.body[i].id] = FirstSeenIds(csvdata, <<>>)
       /\ \A i \in 1..Len(response.body) :
            response.body[i].text = LastTextOf(csvdata, response.body[i].id)

C1_Witness ==
  /\ IsPost
  /\ Registered(request.modelName)
  /\ request.data = PyStr("")
  /\ Len(response.body) >= 2

\* C2: for a model name that is not in the registry both POST and OPTIONS
\* answer 404 Not Found, and no engine query is made for the request.
C2_UnknownModelNotFound ==
  (pc = "ready" /\ request.method \in {"POST", "OPTIONS"}
     /\ ~Registered(request.modelName))
    => /\ response.status = "404 Not Found"
       /\ calls = <<>>

\* C3 as stated: any body that is not a string gets 400 Bad Request and no
\* engine query, whatever the model name.
C3_NonStringBadRequest ==
  (IsPost /\ ~IsBasestring(request.data))
    => /\ response.status = "400 Bad Request"
       /\ calls = <<>>

\* C3 amended: a body that is not a string never reaches the engine; it gets
\* 404 when the model name is not registered, 400 when the name is registered
\* and the body is non-empty (truthy), and the corpus listing when the name is
\* registered and the body is empty (falsy, e.g. None).
C3_NonStringAmended ==
  (IsPost /\ ~IsBasestring(request.data))
    => /\ calls = <<>>
       /\ ~Registered(request.modelName) => response.status = "404 Not Found"
       /\ (Registered(request.modelName) /\ Truthy(request.data))
            => response.status = "400 Bad Request"
       /\ (Registered(request.modelName) /\ ~Truthy(request.data))
            => /\ response.status = "200 OK"
               /\ Len(response.body) = Len(samples)
               /\ \A i \in 1..Len(samples) :
                    response.body[i] =
                      [id |-> samples[i][1], text |-> samples[i][2], score |-> 0]

C3_Witness ==
  /\ IsPost
  /\ request.data = PyInt(7)
  /\ Registered(request.modelName)
  /\ response.status = "400 Bad Request"

C5_EntriesFromStore ==
  (IsQueryPost /\ response.status = "200 OK")
    => LET sortedDistances == queryModel(models[request.modelName], request.data.s)
       IN  /\ Len(response.body) = Len(sortedDistances)
           /\ \A i \in 1..Len(response.body) :
                /\ response.body[i].id = sortedDistances[i][1]
                /\ response.body[i].score = sortedDistances[i][2].numpy
                /\ \E j \in 1..Len(samples) :
                     samples[j] = <<response.body[i].id, response.body[i].text>>

C5_Witness ==
  /\ IsQueryPost
  /\ response.status = "200 OK"
  /\ Len(response.body) >= 2
  /\ response.body[1].text # response.body[2].text

\* C6: once construction or training of a model (or the corpus load) has
\* raised, the service is never ready, the registry holds no model and no
\* request is ever served.
C6_AllOrNothing ==
  raised # "none"
    => /\ pc = "failed"
       /\ DOMAIN models = {}
       /\ request = NoRequest
       /\ calls = <<>>

\* The failure struck the last model, after the other two had been trained.
C6_Witness ==
  /\ raised = "EngineError"
  /\ pending = {}
  /\ csvdata # <<>>

\* C7: every engine in the registry has been prepared, encoded and trained on
\* every row of the corpus, indices 0..n-1 in order; requests are served only
\* with the complete registry, and every engine queried is fully trained.
C7_FullyTrainedRegistry ==
  /\ \A name \in DOMAIN models : FullyTrained(models[name])
  /\ request # NoRequest
       => /\ pc = "ready"
          /\ DOMAIN models = DOMAIN MODEL_MAPPING
  /\ \A i \in 1..Len(calls) :
       /\ calls[i].model \in DOMAIN models
       /\ FullyTrained(models[calls[i].model])

C7_Witness ==
  /\ IsQueryPost
  /\ calls # <<>>
  /\ Len(csvdata) >= 2
  /\ Len(models[request.modelName].trained) >= 2

\* C8: after startup no request changes the Corpus Store or the Registry.
C8_ReadOnlyAfterStartup ==
  [][pc = "ready" => (samples' = samples /\ models' = models /\ csvdata' = csvdata)]_vars

C8_Witness ==
  /\ IsPost
  /\ Registered(request.modelName)
  /\ request.data = PyStr("")
  /\ memo.set
  /\ memo.since >= 2
  /\ samples # <<>>

\* C9: a POST that repeats an earlier POST (same model name, same body)
\* returns the response the earlier one returned, whatever was served between.
C9_IdempotentQuery ==
  (IsPost /\ memo.set /\ memo.modelName = request.modelName /\ memo.data = request.data)
    => response = memo.response

C9_Witness ==
  /\ IsQueryPost
  /\ memo.set
  /\ memo.since >= 2
  /\ memo.modelName = request.modelName
  /\ memo.data = request.data
  /\ Len(response.body) >= 2

\* C10: the engine is queried only with non-empty text; a POST with an empty
\* body and a direct query with empty text make no engine query, and the
\* direct query returns the empty list.
C10_NoEmptyTextToEngine ==
  /\ \A i \in 1..Len(calls) : calls[i].text.type = "str" /\ calls[i].text.s # ""
  /\ (IsPost /\ request.data = PyStr("")) => calls = <<>>
  /\ (request.method = "query" /\ request.data = PyStr(""))
       => /\ calls = <<>>
          /\ response.status = "returned"
          /\ response.body = <<>>

C10_Witness ==
  /\ request.method = "query"
  /\ request.data = PyStr("")
  /\ Registered(request.modelName)
  /\ response.status = "returned"

====
